---- MODULE Spec2Model ----
(***************************************************************************)
(* A model of the discoverygo client: the URL builder (EventsUrl,          *)
(* UpdateURL, redactUrl) and the request/decode pipeline (GetEvent,        *)
(* SearchEvents, PagedResponse.NextPage, PagedResponse.PreviousPage).      *)
(*                                                                         *)
(* Go strings are sequences of one-character strings, so that parsing,     *)
(* escaping, sorting and formatting are computed character by character.   *)
(* Go's int is a 64-bit two's complement number, held as IntLimbs bytes,   *)
(* least significant first, so that Size*Number wraps as it does in Go.    *)
(* A Go pointer or error is <<>> when nil and <<v>> otherwise.             *)
(***************************************************************************)
EXTENDS Integers, Sequences, FiniteSets, TLC

VARIABLES client, p, op, args, out

vars == <<client, p, op, args, out>>

Nil == <<>>

Some(v) == <<v>>

Range(s) == {s[i] : i \in 1..Len(s)}

----------------------------------------------------------------------------
(* Bytes and strings *)

\* The printable ASCII characters, in code order (32..126); "<96>" stands for
\* the grave accent, which a TLA+ string cannot hold.
Printable == <<" ","!","\"","#","$","%","&","'","(",")","*","+",",","-",".","/","0","1","2","3","4","5","6","7","8","9",":",";","<","=",">","?","@","A","B","C","D","E","F","G","H","I","J","K","L","M","N","O","P","Q","R","S","T","U","V","W","X","Y","Z","[","\\","]","^","_","<96>","a","b","c","d","e","f","g","h","i","j","k","l","m","n","o","p","q","r","s","t","u","v","w","x","y","z","{","|","}","~">>

\* The byte value of a character; the model's only control characters are
\* tab and newline.
Ord(c) ==
  IF c = "\t" THEN 9
  ELSE IF c = "\n" THEN 10
  ELSE 31 + (CHOOSE i \in 1..Len(Printable) : Printable[i] = c)

Chr(n) == Printable[n - 31]

IsDigit(c) == Ord(c) >= 48 /\ Ord(c) <= 57

IsUpper(c) == Ord(c) >= 65 /\ Ord(c) <= 90

IsLower(c) == Ord(c) >= 97 /\ Ord(c) <= 122

IsAlnum(c) == IsDigit(c) \/ IsUpper(c) \/ IsLower(c)

\* strings.Contains / strings.Index
IndexFrom(s, t, i) ==
  LET hits == {j \in i..(Len(s) - Len(t) + 1) : SubSeq(s, j, j + Len(t) - 1) = t}
  IN  IF hits = {} THEN 0 ELSE CHOOSE j \in hits : \A k \in hits : j <= k

Index(s, t) == IndexFrom(s, t, 1)

Contains(s, t) == Index(s, t) # 0

HasPrefix(s, t) == Len(s) >= Len(t) /\ SubSeq(s, 1, Len(t)) = t

\* strings.Cut(s, sep): before, after, found
Cut(s, sep) ==
  LET i == Index(s, sep)
  IN  IF i = 0 THEN [before |-> s, after |-> <<>>, found |-> FALSE]
      ELSE [before |-> SubSeq(s, 1, i - 1),
            after  |-> SubSeq(s, i + Len(sep), Len(s)),
            found  |-> TRUE]

\* Byte-wise string order, as sort.Strings uses.
RECURSIVE StrLess(_, _)
StrLess(a, b) ==
  IF b = <<>> THEN FALSE
  ELSE IF a = <<>> THEN TRUE
  ELSE IF Ord(a[1]) # Ord(b[1]) THEN Ord(a[1]) < Ord(b[1])
  ELSE StrLess(Tail(a), Tail(b))

\* The decimal digits of a natural number (fmt's %d).
RECURSIVE Itoa(_)
Itoa(n) ==
  IF n < 10 THEN <<Chr(48 + n)>> ELSE Itoa(n \div 10) \o <<Chr(48 + (n % 10))>>

----------------------------------------------------------------------------
(* net/url *)

HexDigits == <<"0","1","2","3","4","5","6","7","8","9","A","B","C","D","E","F">>

IsHex(c) == IsDigit(c) \/ (Ord(c) >= 65 /\ Ord(c) <= 70) \/ (Ord(c) >= 97 /\ Ord(c) <= 102)

UnHex(c) ==
  IF IsDigit(c) THEN Ord(c) - 48
  ELSE IF IsLower(c) THEN Ord(c) - 97 + 10
  ELSE Ord(c) - 65 + 10

\* net/url shouldEscape, for the two modes the client uses.
ShouldEscape(c, mode) ==
  IF IsAlnum(c) THEN FALSE
  ELSE IF c \in {"-", "_", ".", "~"} THEN FALSE
  ELSE IF c \in {"$", "&", "+", ",", "/", ":", ";", "=", "?", "@"}
       THEN IF mode = "path" THEN c \in {";", ",", "?"} ELSE TRUE
  ELSE TRUE

\* net/url escape
RECURSIVE Escape(_, _)
Escape(s, mode) ==
  IF s = <<>> THEN <<>>
  ELSE LET c == s[1]
           e == IF ShouldEscape(c, mode)
                THEN IF c = " " /\ mode = "query" THEN <<"+">>
                     ELSE <<"%", HexDigits[(Ord(c) \div 16) + 1], HexDigits[(Ord(c) % 16) + 1]>>
                ELSE <<c>>
       IN  e \o Escape(Tail(s), mode)

QueryEscape(s) == Escape(s, "query")

\* net/url unescape: [ok, s]. A % needs two hex digits after it; in a query a
\* + is a space. The model's strings hold only escapes of printable bytes.
RECURSIVE Unescape(_, _)
Unescape(s, mode) ==
  IF s = <<>> THEN [ok |-> TRUE, s |-> <<>>]
  ELSE IF s[1] = "%"
  THEN IF Len(s) < 3 \/ ~IsHex(s[2]) \/ ~IsHex(s[3])
       THEN [ok |-> FALSE, s |-> <<>>]
       ELSE LET r == Unescape(SubSeq(s, 4, Len(s)), mode)
            IN  [ok |-> r.ok, s |-> <<Chr(16 * UnHex(s[2]) + UnHex(s[3]))>> \o r.s]
  ELSE LET r == Unescape(Tail(s), mode)
           c == IF s[1] = "+" /\ mode = "query" THEN " " ELSE s[1]
       IN  [ok |-> r.ok, s |-> <<c>> \o r.s]

QueryUnescape(s) == Unescape(s, "query")

\* url.Values is a map from key to the list of its values: a function whose
\* domain is the set of keys present.
EmptyValues == [k \in {} |-> <<>>]

\* Values.Set
ValuesSet(m, key, value) ==
  [k \in DOMAIN m \cup {key} |-> IF k = key THEN <<value>> ELSE m[k]]

\* Values.Add
ValuesAdd(m, key, value) ==
  [k \in DOMAIN m \cup {key} |->
     IF k = key THEN (IF key \in DOMAIN m THEN m[key] ELSE <<>>) \o <<value>>
     ELSE m[k]]

\* net/url parseQuery: the pairs are split at &, a pair with a semicolon or a
\* bad escape is dropped, an empty pair is skipped, and the parse goes on.
RECURSIVE ParseQueryInto(_, _)
ParseQueryInto(m, query) ==
  IF query = <<>> THEN m
  ELSE LET c    == Cut(query, <<"&">>)
           kv   == Cut(c.before, <<"=">>)
           key  == QueryUnescape(kv.before)
           val  == QueryUnescape(kv.after)
       IN  IF Contains(c.before, <<";">>) THEN ParseQueryInto(m, c.after)
           ELSE IF c.before = <<>> THEN ParseQueryInto(m, c.after)
           ELSE IF ~key.ok THEN ParseQueryInto(m, c.after)
           ELSE IF ~val.ok THEN ParseQueryInto(m, c.after)
           ELSE ParseQueryInto(ValuesAdd(m, key.s, val.s), c.after)

\* URL.Query: ParseQuery(u.RawQuery) with its error discarded.
Query(u) == ParseQueryInto(EmptyValues, u.RawQuery)

\* The keys of a set in sorted order.
RECURSIVE SortedKeys(_)
SortedKeys(ks) ==
  IF ks = {} THEN <<>>
  ELSE LET k == CHOOSE x \in ks : \A y \in ks \ {x} : StrLess(x, y)
       IN  <<k>> \o SortedKeys(ks \ {k})

RECURSIVE EncodeKey(_, _)
EncodeKey(keyEscaped, vs) ==
  IF vs = <<>> THEN <<>>
  ELSE <<keyEscaped \o <<"=">> \o QueryEscape(vs[1])>> \o EncodeKey(keyEscaped, Tail(vs))

RECURSIVE EncodePairs(_, _)
EncodePairs(m, keys) ==
  IF keys = <<>> THEN <<>>
  ELSE EncodeKey(QueryEscape(keys[1]), m[keys[1]]) \o EncodePairs(m, Tail(keys))

RECURSIVE JoinAmp(_)
JoinAmp(pairs) ==
  IF pairs = <<>> THEN <<>>
  ELSE IF Len(pairs) = 1 THEN pairs[1]
  ELSE pairs[1] \o <<"&">> \o JoinAmp(Tail(pairs))

\* Values.Encode: "URL encoded" form sorted by key.
Encode(m) == JoinAmp(EncodePairs(m, SortedKeys(DOMAIN m)))

\* URL.EscapedPath for a path with no RawPath
EscapedPath(u) == Escape(u.Path, "path")

\* URL.String for a URL with a scheme and a host and no user, opaque part or
\* fragment.
String(u) ==
  LET path == EscapedPath(u)
  IN  u.Scheme \o <<":">> \o <<"/", "/">> \o u.Host
      \o (IF path # <<>> /\ path[1] # "/" THEN <<"/">> ELSE <<>>)
      \o path
      \o (IF u.RawQuery # <<>> THEN <<"?">> \o u.RawQuery ELSE <<>>)

\* URL.JoinPath(elem) for one element that path.Clean leaves as it is (no
\* slash, no dot segment): path.Join skips an empty element.
JoinPath(u, elem) ==
  IF elem = <<>> THEN u
  ELSE [u EXCEPT !.Path = (IF u.Path # <<>> /\ u.Path[Len(u.Path)] = "/"
                           THEN u.Path ELSE u.Path \o <<"/">>) \o elem]

\* net/url stringContainsCTLByte
ContainsCTL(s) == \E i \in 1..Len(s) : Ord(s[i]) < 32 \/ Ord(s[i]) = 127

\* url.Parse of a reference with no scheme, authority or fragment:
\* [ok, Path, RawQuery]. It fails on a control character, on a colon in the
\* first path segment, and on a bad escape in the path.
ParseRef(href) ==
  LET c    == Cut(href, <<"?">>)
      rest == IF href # <<>> /\ href[Len(href)] = "?" /\ ~Contains(SubSeq(href, 1, Len(href) - 1), <<"?">>)
              THEN SubSeq(href, 1, Len(href) - 1) ELSE c.before
      rawq == IF rest = c.before THEN c.after ELSE <<>>
      seg  == Cut(rest, <<"/">>).before
      path == Unescape(rest, "path")
  IN  IF ContainsCTL(href) THEN [ok |-> FALSE, Path |-> <<>>, RawQuery |-> <<>>]
      ELSE IF ~HasPrefix(rest, <<"/">>) /\ Contains(seg, <<":">>)
           THEN [ok |-> FALSE, Path |-> <<>>, RawQuery |-> <<>>]
      ELSE IF ~path.ok THEN [ok |-> FALSE, Path |-> <<>>, RawQuery |-> <<>>]
      ELSE [ok |-> TRUE, Path |-> path.s, RawQuery |-> rawq]

\* The last index of "/" in s, 0 when there is none.
LastSlash(s) ==
  LET hits == {i \in 1..Len(s) : s[i] = "/"}
  IN  IF hits = {} THEN 0 ELSE CHOOSE i \in hits : \A j \in hits : j <= i

\* net/url resolvePath for paths with no dot segments
ResolvePath(base, ref) ==
  LET full == IF ref = <<>> THEN base
              ELSE IF ref[1] # "/" THEN SubSeq(base, 1, LastSlash(base)) \o ref
              ELSE ref
  IN  IF full = <<>> THEN <<>>
      ELSE IF full[1] = "/" THEN full ELSE <<"/">> \o full

\* URL.Parse(ref): url.Parse, then URL.ResolveReference. <<>> (a nil *URL)
\* when the parse fails.
Parse(base, href) ==
  LET ref == ParseRef(href)
  IN  IF ~ref.ok THEN Nil
      ELSE IF ref.Path = <<>> /\ ref.RawQuery = <<>> /\ href = <<>>
           THEN Some(base)
      ELSE Some([Scheme   |-> base.Scheme,
                 Host     |-> base.Host,
                 Path     |-> ResolvePath(EscapedPath(base), Escape(ref.Path, "path")),
                 RawQuery |-> ref.RawQuery])

----------------------------------------------------------------------------
(* Go's int *)

\* The bytes of an int (a 64-bit build).
IntLimbs == 8

Base == 256

\* A natural number below Base^n as n bytes, least significant first.
RECURSIVE ToLimbs(_, _)
ToLimbs(v, n) ==
  IF n = 0 THEN <<>> ELSE <<v % Base>> \o ToLimbs(v \div Base, n - 1)

IsZero(a) == \A i \in 1..Len(a) : a[i] = 0

IsNeg(a) == a[Len(a)] >= Base \div 2

\* Sign extension to n bytes.
Extend(a, n) ==
  [i \in 1..n |-> IF i <= Len(a) THEN a[i] ELSE IF IsNeg(a) THEN Base - 1 ELSE 0]

\* a + b modulo Base^Len(a); c is the carry in.
RECURSIVE AddLimbs(_, _, _)
AddLimbs(a, b, c) ==
  IF a = <<>> THEN <<>>
  ELSE LET s == a[1] + b[1] + c
       IN  <<s % Base>> \o AddLimbs(Tail(a), Tail(b), s \div Base)

\* Two's complement negation.
Neg(a) ==
  AddLimbs([i \in 1..Len(a) |-> Base - 1 - a[i]], ToLimbs(1, Len(a)), 0)

\* Column k (from 0) of the schoolbook product, without carries.
Column(a, b, k) ==
  LET RECURSIVE Sum(_)
      Sum(i) == IF i > k THEN 0 ELSE a[i + 1] * b[k - i + 1] + Sum(i + 1)
  IN  Sum(0)

\* a * b modulo Base^Len(a): Go's wrapping multiplication of two ints.
RECURSIVE MulFrom(_, _, _, _)
MulFrom(a, b, k, c) ==
  IF k = Len(a) THEN <<>>
  ELSE LET s == Column(a, b, k) + c
       IN  <<s % Base>> \o MulFrom(a, b, k + 1, s \div Base)

Mul(a, b) == MulFrom(a, b, 0, 0)

\* a >= n for a signed a and a natural n below Base^2.
GeSmall(a, n) ==
  /\ ~IsNeg(a)
  /\ \/ \E i \in 3..Len(a) : a[i] # 0
     \/ a[2] * Base + a[1] >= n

\* The quotient and remainder of an unsigned a by a small d.
RECURSIVE DivSmallFrom(_, _, _, _)
DivSmallFrom(a, d, i, r) ==
  IF i = 0 THEN [q |-> <<>>, r |-> r]
  ELSE LET cur  == r * Base + a[i]
           rest == DivSmallFrom(a, d, i - 1, cur % d)
       IN  [q |-> rest.q \o <<cur \div d>>, r |-> rest.r]

DivSmall(a, d) == DivSmallFrom(a, d, Len(a), 0)

RECURSIVE UItoa(_)
UItoa(a) ==
  LET qr == DivSmall(a, 10)
  IN  IF IsZero(qr.q) THEN <<Chr(48 + qr.r)>>
      ELSE UItoa(qr.q) \o <<Chr(48 + qr.r)>>

\* fmt's %d of an int.
IntItoa(a) == IF IsNeg(a) THEN <<"-">> \o UItoa(Neg(a)) ELSE UItoa(a)

\* strconv.ParseInt(s, 10, 64) of an optional minus sign and decimal digits:
\* [ok, v]; out of range is an error.
RECURSIVE ParseUint(_, _)
ParseUint(s, acc) ==
  IF s = <<>> THEN [ok |-> TRUE, v |-> acc]
  ELSE LET wide == MulFrom(Extend(acc, IntLimbs + 1), ToLimbs(10, IntLimbs + 1), 0, 0)
           sum  == AddLimbs(wide, ToLimbs(Ord(s[1]) - 48, IntLimbs + 1), 0)
       IN  IF sum[IntLimbs + 1] # 0 THEN [ok |-> FALSE, v |-> acc]
           ELSE ParseUint(Tail(s), SubSeq(sum, 1, IntLimbs))

ParseInt(s) ==
  LET neg == s # <<>> /\ s[1] = "-"
      ds  == IF neg THEN Tail(s) ELSE s
      u   == ParseUint(ds, ToLimbs(0, IntLimbs))
      min == [i \in 1..IntLimbs |-> IF i = IntLimbs THEN Base \div 2 ELSE 0]
  IN  IF ds = <<>> \/ \E i \in 1..Len(ds) : ~IsDigit(ds[i]) THEN [ok |-> FALSE, v |-> ToLimbs(0, IntLimbs)]
      ELSE IF ~u.ok THEN [ok |-> FALSE, v |-> ToLimbs(0, IntLimbs)]
      ELSE IF neg THEN (IF IsNeg(u.v) /\ u.v # min THEN [ok |-> FALSE, v |-> ToLimbs(0, IntLimbs)]
                        ELSE [ok |-> TRUE, v |-> Neg(u.v)])
      ELSE IF IsNeg(u.v) THEN [ok |-> FALSE, v |-> ToLimbs(0, IntLimbs)]
      ELSE [ok |-> TRUE, v |-> u.v]

----------------------------------------------------------------------------
(* encoding/json *)

IsSpace(c) == c \in {" ", "\t", "\n"}

RECURSIVE SkipSpace(_, _)
SkipSpace(s, i) == IF i <= Len(s) /\ IsSpace(s[i]) THEN SkipSpace(s, i + 1) ELSE i

Bad == [ok |-> FALSE, v |-> [t |-> "null"], next |-> 0]

\* The end of a run of digits starting at i.
RECURSIVE DigitsEnd(_, _)
DigitsEnd(s, i) == IF i <= Len(s) /\ IsDigit(s[i]) THEN DigitsEnd(s, i + 1) ELSE i

\* The index of the closing quote of a string whose first character is at i,
\* 0 when the string is not closed or holds a control character. The model's
\* JSON strings hold no backslash escapes.
RECURSIVE StringEnd(_, _)
StringEnd(s, i) ==
  IF i > Len(s) THEN 0
  ELSE IF s[i] = "\"" THEN i
  ELSE IF Ord(s[i]) < 32 \/ s[i] = "\\" THEN 0
  ELSE StringEnd(s, i + 1)

\* The scanner: the JSON value that starts at or after index i of s, as
\* [ok, v, next] with next the index after the value. Numbers are integers.
RECURSIVE ScanValue(_, _), ScanMembers(_, _, _), ScanElements(_, _, _)
ScanValue(s, i0) ==
  LET i == SkipSpace(s, i0)
  IN  IF i > Len(s) THEN Bad
      ELSE IF s[i] = "{"
      THEN LET j == SkipSpace(s, i + 1)
           IN  IF j <= Len(s) /\ s[j] = "}"
               THEN [ok |-> TRUE, v |-> [t |-> "object", m |-> <<>>], next |-> j + 1]
               ELSE ScanMembers(s, j, <<>>)
      ELSE IF s[i] = "["
      THEN LET j == SkipSpace(s, i + 1)
           IN  IF j <= Len(s) /\ s[j] = "]"
               THEN [ok |-> TRUE, v |-> [t |-> "array", e |-> <<>>], next |-> j + 1]
               ELSE ScanElements(s, j, <<>>)
      ELSE IF s[i] = "\""
      THEN LET e == StringEnd(s, i + 1)
           IN  IF e = 0 THEN Bad
               ELSE [ok |-> TRUE, v |-> [t |-> "string", s |-> SubSeq(s, i + 1, e - 1)], next |-> e + 1]
      ELSE IF s[i] = "-" \/ IsDigit(s[i])
      THEN LET d == IF s[i] = "-" THEN i + 1 ELSE i
               e == IF d <= Len(s) /\ s[d] = "0" THEN d + 1 ELSE DigitsEnd(s, d)
           IN  IF e = d THEN Bad
               ELSE [ok |-> TRUE, v |-> [t |-> "number", s |-> SubSeq(s, i, e - 1)], next |-> e]
      ELSE IF SubSeq(s, i, i + 3) = <<"n","u","l","l">>
      THEN [ok |-> TRUE, v |-> [t |-> "null"], next |-> i + 4]
      ELSE IF SubSeq(s, i, i + 3) = <<"t","r","u","e">>
      THEN [ok |-> TRUE, v |-> [t |-> "bool", b |-> TRUE], next |-> i + 4]
      ELSE IF SubSeq(s, i, i + 4) = <<"f","a","l","s","e">>
      THEN [ok |-> TRUE, v |-> [t |-> "bool", b |-> FALSE], next |-> i + 5]
      ELSE Bad

\* The members of an object from the key at i on; acc holds those read.
ScanMembers(s, i, acc) ==
  IF i > Len(s) \/ s[i] # "\"" THEN Bad
  ELSE LET e == StringEnd(s, i + 1)
           c == SkipSpace(s, e + 1)
       IN  IF e = 0 \/ c > Len(s) \/ s[c] # ":" THEN Bad
           ELSE LET val  == ScanValue(s, c + 1)
                    n    == SkipSpace(s, val.next)
                    acc2 == Append(acc, [k |-> SubSeq(s, i + 1, e - 1), v |-> val.v])
                IN  IF ~val.ok \/ n > Len(s) THEN Bad
                    ELSE IF s[n] = "}"
                    THEN [ok |-> TRUE, v |-> [t |-> "object", m |-> acc2], next |-> n + 1]
                    ELSE IF s[n] = "," THEN ScanMembers(s, SkipSpace(s, n + 1), acc2)
                    ELSE Bad

\* The elements of an array from the value at i on.
ScanElements(s, i, acc) ==
  LET val  == ScanValue(s, i)
      n    == SkipSpace(s, val.next)
      acc2 == Append(acc, val.v)
  IN  IF ~val.ok \/ n > Len(s) THEN Bad
      ELSE IF s[n] = "]"
      THEN [ok |-> TRUE, v |-> [t |-> "array", e |-> acc2], next |-> n + 1]
      ELSE IF s[n] = "," THEN ScanElements(s, n + 1, acc2)
      ELSE Bad

\* The types the client decodes into.
TInt == [kind |-> "int"]

TString == [kind |-> "string"]

TBool == [kind |-> "bool"]

\* map[string]any
TMap == [kind |-> "map"]

\* []map[string]any
TDocs == [kind |-> "slice"]

TLink ==
  [kind |-> "struct",
   fields |-> << [go |-> "Href", json |-> <<"h","r","e","f">>, type |-> TString],
                 [go |-> "Templated", json |-> <<"t","e","m","p","l","a","t","e","d">>, type |-> TBool] >>]

TLinks ==
  [kind |-> "struct",
   fields |-> << [go |-> "Self", json |-> <<"s","e","l","f">>, type |-> TLink],
                 [go |-> "Next", json |-> <<"n","e","x","t">>, type |-> TLink],
                 [go |-> "Prev", json |-> <<"p","r","e","v">>, type |-> TLink] >>]

TPage ==
  [kind |-> "struct",
   fields |-> << [go |-> "Size", json |-> <<"s","i","z","e">>, type |-> TInt],
                 [go |-> "TotalElements", json |-> <<"t","o","t","a","l","E","l","e","m","e","n","t","s">>, type |-> TInt],
                 [go |-> "TotalPages", json |-> <<"t","o","t","a","l","P","a","g","e","s">>, type |-> TInt],
                 [go |-> "Number", json |-> <<"n","u","m","b","e","r">>, type |-> TInt] >>]

TEmbeddedResponse ==
  [kind |-> "struct",
   fields |-> << [go |-> "Events", json |-> <<"e","v","e","n","t","s">>, type |-> TDocs],
                 [go |-> "Venues", json |-> <<"v","e","n","u","e","s">>, type |-> TDocs],
                 [go |-> "Attractions", json |-> <<"a","t","t","r","a","c","t","i","o","n","s">>, type |-> TDocs],
                 [go |-> "Classifications", json |-> <<"c","l","a","s","s","i","f","i","c","a","t","i","o","n","s">>, type |-> TDocs] >>]

TPagedResponse ==
  [kind |-> "struct",
   fields |-> << [go |-> "Links", json |-> <<"_","l","i","n","k","s">>, type |-> TLinks],
                 [go |-> "Page", json |-> <<"p","a","g","e">>, type |-> TPage],
                 [go |-> "Embedded", json |-> <<"_","e","m","b","e","d","d","e","d">>, type |-> TEmbeddedResponse] >>]

\* The zero value of a type; a nil map or slice is <<>>.
RECURSIVE Zero(_)
Zero(type) ==
  IF type.kind = "int" THEN ToLimbs(0, IntLimbs)
  ELSE IF type.kind = "string" THEN <<>>
  ELSE IF type.kind = "bool" THEN FALSE
  ELSE IF type.kind = "struct"
       THEN [g \in {type.fields[i].go : i \in 1..Len(type.fields)} |->
               Zero((CHOOSE f \in Range(type.fields) : f.go = g).type)]
  ELSE Nil

\* ASCII case folding, as the decoder matches a key with a field's name.
Fold(s) == [i \in 1..Len(s) |-> IF IsUpper(s[i]) THEN Chr(Ord(s[i]) + 32) ELSE s[i]]

\* The field a key names: an exact match, else a case-insensitive one; 0 when
\* there is none (the member is then skipped).
FieldFor(type, key) ==
  LET exact == {i \in 1..Len(type.fields) : type.fields[i].json = key}
      fold  == {i \in 1..Len(type.fields) : Fold(type.fields[i].json) = Fold(key)}
  IN  IF exact # {} THEN CHOOSE i \in exact : TRUE
      ELSE IF fold # {} THEN CHOOSE i \in fold : TRUE
      ELSE 0

\* json.Unmarshal of a scanned value into a Go value cur of the given type:
\* [bad, v]. A value of the wrong type is an UnmarshalTypeError (bad): the
\* decoder leaves that field as it was and goes on with the rest. null leaves
\* the value as it was.
RECURSIVE Unmarshal(_, _, _), UnmarshalMembers(_, _, _)
Unmarshal(type, j, cur) ==
  IF j.t = "null" THEN [bad |-> FALSE, v |-> cur]
  ELSE IF type.kind = "int"
  THEN IF j.t # "number" THEN [bad |-> TRUE, v |-> cur]
       ELSE LET n == ParseInt(j.s)
            IN  IF n.ok THEN [bad |-> FALSE, v |-> n.v] ELSE [bad |-> TRUE, v |-> cur]
  ELSE IF type.kind = "string"
  THEN IF j.t = "string" THEN [bad |-> FALSE, v |-> j.s] ELSE [bad |-> TRUE, v |-> cur]
  ELSE IF type.kind = "bool"
  THEN IF j.t = "bool" THEN [bad |-> FALSE, v |-> j.b] ELSE [bad |-> TRUE, v |-> cur]
  ELSE IF type.kind = "map"
  THEN IF j.t = "object" THEN [bad |-> FALSE, v |-> Some(j.m)] ELSE [bad |-> TRUE, v |-> cur]
  ELSE IF type.kind = "slice"
  THEN IF j.t # "array" THEN [bad |-> TRUE, v |-> cur]
       ELSE LET es == [i \in 1..Len(j.e) |-> Unmarshal(TMap, j.e[i], Nil)]
            IN  [bad |-> \E i \in 1..Len(es) : es[i].bad,
                 v   |-> Some([i \in 1..Len(es) |-> es[i].v])]
  ELSE IF j.t # "object" THEN [bad |-> TRUE, v |-> cur]
  ELSE UnmarshalMembers(type, j.m, cur)

UnmarshalMembers(type, ms, cur) ==
  IF ms = <<>> THEN [bad |-> FALSE, v |-> cur]
  ELSE LET f == FieldFor(type, ms[1].k)
       IN  IF f = 0 THEN UnmarshalMembers(type, Tail(ms), cur)
           ELSE LET g    == type.fields[f].go
                    one  == Unmarshal(type.fields[f].type, ms[1].v, cur[g])
                    rest == UnmarshalMembers(type, Tail(ms), [cur EXCEPT ![g] = one.v])
                IN  [bad |-> one.bad \/ rest.bad, v |-> rest.v]

\* json.NewDecoder(body).Decode(&rs) for a zero rs of the given type:
\* [ok, v]. The decoder reads the first JSON value of the stream and stops:
\* what follows the value is not looked at.
Decode(type, data) ==
  LET val == ScanValue(data, 1)
      rs  == Unmarshal(type, val.v, Zero(type))
  IN  IF ~val.ok THEN [ok |-> FALSE, v |-> Zero(type)]
      ELSE [ok |-> ~rs.bad, v |-> rs.v]

\* Whether data is one JSON value and nothing else (json.Valid).
Valid(data) ==
  LET val == ScanValue(data, 1)
  IN  val.ok /\ SkipSpace(data, val.next) > Len(data)

----------------------------------------------------------------------------
(* The client *)

sApikey == <<"a","p","i","k","e","y">>

sRedacted == <<"R","E","D","A","C","T","E","D">>

\* DiscoveryApiUrl, parsed.
DiscoveryApiUrl ==
  [Scheme |-> <<"h","t","t","p","s">>, Host |-> <<"a","p","p",".","t","i","c","k","e","t","m","a","s","t","e","r",".","c","o","m">>,
   Path |-> <<"/","d","i","s","c","o","v","e","r","y","/","v","2">>, RawQuery |-> <<>>]

\* DiscoveryClient.EventsUrl
EventsUrl(d) ==
  LET eventsUrl == JoinPath(d.ApiUrl, <<"e","v","e","n","t","s">>)
      q         == ValuesSet(Query(eventsUrl), sApikey, d.ApiKey)
  IN  IF d.ApiKey = <<>> THEN eventsUrl
      ELSE [eventsUrl EXCEPT !.RawQuery = Encode(q)]

\* DiscoveryClient.VenuesUrl
VenuesUrl(d) ==
  LET venuesUrl == JoinPath(d.ApiUrl, <<"v","e","n","u","e","s">>)
      q         == ValuesSet(Query(venuesUrl), sApikey, d.ApiKey)
  IN  IF d.ApiKey = <<>> THEN venuesUrl
      ELSE [venuesUrl EXCEPT !.RawQuery = Encode(q)]

\* The fields of QueryParams in the order of the struct, each with its wire
\* name (its json tag; every tag has omitempty).
QueryFields ==
  << [go |-> "Id", json |-> <<"i","d">>],
     [go |-> "Sort", json |-> <<"s","o","r","t">>],
     [go |-> "Page", json |-> <<"p","a","g","e">>],
     [go |-> "Size", json |-> <<"s","i","z","e">>],
     [go |-> "Locale", json |-> <<"l","o","c","a","l","e">>],
     [go |-> "Keyword", json |-> <<"k","e","y","w","o","r","d">>],
     [go |-> "IncludeTest", json |-> <<"i","n","c","l","u","d","e","T","e","s","t">>],
     [go |-> "IncludeTBA", json |-> <<"i","n","c","l","u","d","e","T","B","A">>],
     [go |-> "IncludeTBD", json |-> <<"i","n","c","l","u","d","e","T","B","D">>],
     [go |-> "VenueID", json |-> <<"v","e","n","u","e","I","d">>],
     [go |-> "StartDateTime", json |-> <<"s","t","a","r","t","D","a","t","e","T","i","m","e">>],
     [go |-> "EndDateTime", json |-> <<"e","n","d","D","a","t","e","T","i","m","e">>],
     [go |-> "CountryCode", json |-> <<"c","o","u","n","t","r","y","C","o","d","e">>],
     [go |-> "StateCode", json |-> <<"s","t","a","t","e","C","o","d","e">>],
     [go |-> "AttractionID", json |-> <<"a","t","t","r","a","c","t","i","o","n","I","d">>],
     [go |-> "SegmentID", json |-> <<"s","e","g","m","e","n","t","I","d">>],
     [go |-> "SegmentName", json |-> <<"s","e","g","m","e","n","t","N","a","m","e">>],
     [go |-> "ClassificationID", json |-> <<"c","l","a","s","s","i","f","i","c","a","t","i","o","n","I","d">>],
     [go |-> "ClassificationName", json |-> <<"c","l","a","s","s","i","f","i","c","a","t","i","o","n","N","a","m","e">>],
     [go |-> "MarketID", json |-> <<"m","a","r","k","e","t","I","d">>],
     [go |-> "PromoterID", json |-> <<"p","r","o","m","o","t","e","r","I","d">>],
     [go |-> "DmaID", json |-> <<"d","m","a","I","d">>],
     [go |-> "LatLong", json |-> <<"l","a","t","l","o","n","g">>],
     [go |-> "Radius", json |-> <<"r","a","d","i","u","s">>],
     [go |-> "Unit", json |-> <<"u","n","i","t">>] >>

FieldNames == {QueryFields[i].go : i \in 1..Len(QueryFields)}

WireName(g) == (CHOOSE f \in Range(QueryFields) : f.go = g).json

\* json.Marshal of a QueryParams: the non-empty fields in struct order. The
\* model's parameter values hold no character that JSON escapes.
RECURSIVE MarshalFields(_, _)
MarshalFields(q, i) ==
  IF i > Len(QueryFields) THEN <<>>
  ELSE LET f    == QueryFields[i]
           rest == MarshalFields(q, i + 1)
       IN  IF q[f.go] = <<>> THEN rest
           ELSE <<<<"\"">> \o f.json \o <<"\"",":","\"">> \o q[f.go] \o <<"\"">>>> \o rest

RECURSIVE JoinComma(_)
JoinComma(parts) ==
  IF parts = <<>> THEN <<>>
  ELSE IF Len(parts) = 1 THEN parts[1]
  ELSE parts[1] \o <<",">> \o JoinComma(Tail(parts))

Marshal(q) == <<"{">> \o JoinComma(MarshalFields(q, 1)) \o <<"}">>

\* json.Unmarshal into a map[string]string: [ok, m]; of two members with one
\* key the later one stays.
RECURSIVE StringMembers(_, _)
StringMembers(ms, m) ==
  IF ms = <<>> THEN [ok |-> TRUE, m |-> m]
  ELSE IF ms[1].v.t = "string" THEN StringMembers(Tail(ms), ValuesSet(m, ms[1].k, ms[1].v.s))
  ELSE IF ms[1].v.t = "null" THEN StringMembers(Tail(ms), ValuesSet(m, ms[1].k, <<>>))
  ELSE [ok |-> FALSE, m |-> m]

UnmarshalStringMap(data) ==
  LET val == ScanValue(data, 1)
  IN  IF ~val.ok \/ SkipSpace(data, val.next) <= Len(data) THEN [ok |-> FALSE, m |-> EmptyValues]
      ELSE IF val.v.t = "null" THEN [ok |-> TRUE, m |-> EmptyValues]
      ELSE IF val.v.t # "object" THEN [ok |-> FALSE, m |-> EmptyValues]
      ELSE LET r == StringMembers(val.v.m, EmptyValues)
           IN  [ok |-> r.ok, m |-> [k \in DOMAIN r.m |-> r.m[k][1]]]

\* The loop of UpdateURL over qp: the fields are distinct keys, so the order
\* in which Go ranges over the map does not show in the result.
RECURSIVE AddFields(_, _, _)
AddFields(query, qp, keys) ==
  IF keys = <<>> THEN query
  ELSE LET field == keys[1]
           val   == qp[field]
       IN  AddFields(IF val # <<>> THEN ValuesAdd(query, field, val) ELSE query,
                     qp, Tail(keys))

\* QueryParams.UpdateURL: [ret, err], ret the URL.
UpdateURL(q, u, apikey) ==
  LET qp    == UnmarshalStringMap(Marshal(q))
      query == AddFields(ValuesSet(Query(u), sApikey, apikey), qp.m, SortedKeys(DOMAIN qp.m))
  IN  IF ~qp.ok THEN [ret |-> Nil, err |-> Some([type |-> "json", msg |-> <<>>])]
      ELSE [ret |-> Some([u EXCEPT !.RawQuery = Encode(query)]), err |-> Nil]

\* A redactUrl that adds the placeholder and keeps the key.
redactUrlAdd(u) ==
  LET query  == Query(u)
      exists == sApikey \in DOMAIN query
      q2     == IF exists THEN ValuesAdd(query, sApikey, sRedacted) ELSE query
  IN  String([u EXCEPT !.RawQuery = Encode(q2)])

\* redactUrl
redactUrl(u) ==
  LET query  == Query(u)
      exists == sApikey \in DOMAIN query
      q2     == IF exists THEN ValuesSet(query, sApikey, sRedacted) ELSE query
  IN  String([u EXCEPT !.RawQuery = Encode(q2)])

----------------------------------------------------------------------------
(* The request/decode pipeline *)

StatusOK == 200

DepthLimit == 1000

\* What one call hands back: the returned pair (ret, err), whether the call
\* ended in a panic instead of returning, the URLs it requested, and what it
\* did with the response body.
Returned(val, e, reqs, resp, decoded) ==
  [ret |-> val, err |-> e, panicked |-> FALSE, requests |-> reqs,
   body |-> [obtained |-> resp # Nil, closedBefore |-> resp # Nil /\ resp[1].closed,
             closes |-> IF resp # Nil THEN 1 ELSE 0, nilClose |-> FALSE,
             decoded |-> decoded]]

\* defer resp.Body.Close() with a nil resp: the operand resp.Body is
\* evaluated when the defer statement runs, which dereferences nil.
NilDeref(reqs) ==
  [ret |-> Nil, err |-> Nil, panicked |-> TRUE, requests |-> reqs,
   body |-> [obtained |-> FALSE, closedBefore |-> FALSE, closes |-> 0,
             nilClose |-> TRUE, decoded |-> FALSE]]

\* rel.Query() with a nil rel: a nil dereference before any request.
NilUrlDeref ==
  [ret |-> Nil, err |-> Nil, panicked |-> TRUE, requests |-> <<>>,
   body |-> [obtained |-> FALSE, closedBefore |-> FALSE, closes |-> 0,
             nilClose |-> FALSE, decoded |-> FALSE]]

\* A status error that leaves the body out of its message.
StatusErrorNoBody(code, data) ==
  [type |-> "fmt", msg |-> <<"S","t","a","t","u","s"," ","c","o","d","e",":"," ">> \o Itoa(code)]

\* fmt.Errorf("Status code: %d: %s", resp.StatusCode, body)
StatusError(code, data) ==
  [type |-> "fmt", msg |-> <<"S","t","a","t","u","s"," ","c","o","d","e",":"," ">> \o Itoa(code) \o <<":"," ">> \o data]

\* fmt.Errorf("Max page depth reached (%d)", p.Page.Size*p.Page.Number)
DepthError(product) ==
  [type |-> "fmt", msg |-> <<"M","a","x"," ","p","a","g","e"," ","d","e","p","t","h"," ","r","e","a","c","h","e","d"," ","(">> \o IntItoa(product) \o <<")">>]

\* io.ReadAll(resp.Body), its error discarded; a body already closed reads as
\* nothing.
ReadAll(resp) == IF resp.closed THEN <<>> ELSE resp.Body

\* The decoder's error: a syntax error (or an early end of input), or a
\* value of the wrong type.
DecodeError == [type |-> "json", msg |-> <<>>]

\* DiscoveryClient.GetEvent: from the deferred close on. reqs is the request made, env what
\* http.Get gave for it, rs what the decoder makes of the body.
GetEventFetch(reqs, env, rs) ==
  IF env.resp = Nil THEN NilDeref(reqs)
  ELSE IF env.err # Nil THEN Returned(Nil, env.err, reqs, env.resp, FALSE)
  ELSE IF env.resp[1].StatusCode # StatusOK
  THEN Returned(Nil, Some(StatusError(env.resp[1].StatusCode, ReadAll(env.resp[1]))),
                reqs, env.resp, FALSE)
  ELSE IF ~rs.ok THEN Returned(Nil, Some(DecodeError), reqs, env.resp, TRUE)
  ELSE Returned(Some(rs.v), Nil, reqs, env.resp, TRUE)

\* DiscoveryClient.GetEvent: env is what http.Get gives for the request.
GetEvent(d, id, env) ==
  GetEventFetch(<<String(JoinPath(EventsUrl(d), id))>>, env,
                Decode(TMap, ReadAll(env.resp[1])))

\* DiscoveryClient.SearchEvents: from the deferred close on. reqs is the request made, env what
\* http.Get gave for it, rs what the decoder makes of the body.
SearchEventsFetch(reqs, env, rs) ==
  IF env.resp = Nil THEN NilDeref(reqs)
  ELSE IF env.err # Nil THEN Returned(Nil, env.err, reqs, env.resp, FALSE)
  ELSE IF env.resp[1].StatusCode # StatusOK
  THEN Returned(Nil, Some(StatusError(env.resp[1].StatusCode, ReadAll(env.resp[1]))),
                reqs, env.resp, FALSE)
  ELSE IF ~rs.ok THEN Returned(Nil, Some(DecodeError), reqs, env.resp, TRUE)
  ELSE Returned(Some(rs.v), Nil, reqs, env.resp, TRUE)

\* DiscoveryClient.SearchEvents: from the check of UpdateURL's error on.
SearchEventsGet(built, env) ==
  IF built.err # Nil THEN Returned(Nil, built.err, <<>>, Nil, FALSE)
  ELSE SearchEventsFetch(<<String(built.ret[1])>>, env,
                         Decode(TPagedResponse, ReadAll(env.resp[1])))

\* DiscoveryClient.SearchEvents
SearchEvents(d, queryParams, env) ==
  SearchEventsGet(UpdateURL(queryParams, EventsUrl(d), d.ApiKey), env)

\* PagedResponse.NextPage: from the deferred close on. reqs is the request made, env what
\* http.Get gave for it, rs what the decoder makes of the body.
NextPageFetch(reqs, env, rs) ==
  IF env.resp = Nil THEN NilDeref(reqs)
  ELSE IF env.err # Nil THEN Returned(Nil, env.err, reqs, env.resp, FALSE)
  ELSE IF env.resp[1].StatusCode # StatusOK
  THEN Returned(Nil, Some(StatusError(env.resp[1].StatusCode, ReadAll(env.resp[1]))),
                reqs, env.resp, FALSE)
  ELSE IF ~rs.ok THEN Returned(Nil, Some(DecodeError), reqs, env.resp, TRUE)
  ELSE Returned(Some(rs.v), Nil, reqs, env.resp, TRUE)

\* PagedResponse.NextPage: from rel.Query() on; rel is what baseUrl.Parse
\* gave, its error discarded.
NextPageGet(rel, d, env) ==
  IF rel = Nil THEN NilUrlDeref
  ELSE NextPageFetch(
         <<String([rel[1] EXCEPT !.RawQuery = Encode(ValuesSet(Query(rel[1]), sApikey, d.ApiKey))])>>,
         env, Decode(TPagedResponse, ReadAll(env.resp[1])))

\* A NextPage that takes an absent link for a failure.
NextPageLinkError(pr, d, env) ==
  IF GeSmall(Mul(pr.Page.Size, pr.Page.Number), DepthLimit)
  THEN Returned(Nil, Some(DepthError(Mul(pr.Page.Size, pr.Page.Number))), <<>>, Nil, FALSE)
  ELSE IF pr.Links.Next.Href = <<>>
  THEN Returned(Nil, Some([type |-> "fmt", msg |-> <<"n","o"," ","n","e","x","t"," ","p","a","g","e">>]), <<>>, Nil, FALSE)
  ELSE NextPageGet(Parse(d.ApiUrl, pr.Links.Next.Href), d, env)

\* PagedResponse.NextPage
NextPage(pr, d, env) ==
  IF GeSmall(Mul(pr.Page.Size, pr.Page.Number), DepthLimit)
  THEN Returned(Nil, Some(DepthError(Mul(pr.Page.Size, pr.Page.Number))), <<>>, Nil, FALSE)
  ELSE IF pr.Links.Next.Href = <<>> THEN Returned(Nil, Nil, <<>>, Nil, FALSE)
  ELSE NextPageGet(Parse(d.ApiUrl, pr.Links.Next.Href), d, env)

\* PagedResponse.PreviousPage: from the deferred close on. reqs is the request made, env what
\* http.Get gave for it, rs what the decoder makes of the body.
PreviousPageFetch(reqs, env, rs) ==
  IF env.resp = Nil THEN NilDeref(reqs)
  ELSE IF env.err # Nil THEN Returned(Nil, env.err, reqs, env.resp, FALSE)
  ELSE IF env.resp[1].StatusCode # StatusOK
  THEN Returned(Nil, Some(StatusError(env.resp[1].StatusCode, ReadAll(env.resp[1]))),
                reqs, env.resp, FALSE)
  ELSE IF ~rs.ok THEN Returned(Nil, Some(DecodeError), reqs, env.resp, TRUE)
  ELSE Returned(Some(rs.v), Nil, reqs, env.resp, TRUE)

\* PagedResponse.PreviousPage: from rel.Query() on; rel is what baseUrl.Parse
\* gave, its error discarded.
PreviousPageGet(rel, d, env) ==
  IF rel = Nil THEN NilUrlDeref
  ELSE PreviousPageFetch(
         <<String([rel[1] EXCEPT !.RawQuery = Encode(ValuesSet(Query(rel[1]), sApikey, d.ApiKey))])>>,
         env, Decode(TPagedResponse, ReadAll(env.resp[1])))

\* PagedResponse.PreviousPage
PreviousPage(pr, d, env) ==
  IF GeSmall(Mul(pr.Page.Size, pr.Page.Number), DepthLimit)
  THEN Returned(Nil, Some(DepthError(Mul(pr.Page.Size, pr.Page.Number))), <<>>, Nil, FALSE)
  ELSE IF pr.Links.Prev.Href = <<>> THEN Returned(Nil, Nil, <<>>, Nil, FALSE)
  ELSE PreviousPageGet(Parse(d.ApiUrl, pr.Links.Prev.Href), d, env)

----------------------------------------------------------------------------
(* The environment: the callers' inputs and the server's answers *)

\* The most fields a generated QueryParams sets.
MaxFields == 1

\* The most pairs a generated raw query holds.
MaxPairs == 2

ApiKeys == {<<>>, <<"k","1">>}

ApiUrls == {DiscoveryApiUrl, [DiscoveryApiUrl EXCEPT !.RawQuery = <<"l","o","c","a","l","e","=","e","n">>]}

Clients == [ApiUrl : ApiUrls, ApiKey : ApiKeys]

EventIds == {<<"e","1">>, <<"Z","7","r","9","j","Z","1","A">>}

ParamValues == {<<"2","0">>, <<"a"," ","b">>}

\* The zero QueryParams.
NoParams == [g \in FieldNames |-> <<>>]

\* The QueryParams values with at most n fields set.
RECURSIVE ParamsUpTo(_)
ParamsUpTo(n) ==
  IF n = 0 THEN {NoParams}
  ELSE LET prev == ParamsUpTo(n - 1)
       IN  prev \cup {[q EXCEPT ![g] = v] : q \in prev, g \in FieldNames, v \in ParamValues}

QueryInputs == ParamsUpTo(MaxFields)

\* The searches of the pipeline's callers.
SearchInputs ==
  {NoParams, [NoParams EXCEPT !["Keyword"] = <<"a"," ","b">>, !["Size"] = <<"2","0">>]}

\* The pairs a raw query is made of.
Segments ==
  {<<"a","=","1">>, <<"b","=","2">>, <<"a","p","i","k","e","y","=","k","1">>, <<"a","p","i","k","e","y","=","k","2">>, <<"q","=","k","1">>, <<"c">>, <<"a","=","x","+","y">>, <<"a","=","x","%","2","0","y">>, <<"a","p","i","k","e","y","=","R","E","D">>}

RECURSIVE SeqsUpTo(_, _)
SeqsUpTo(S, n) ==
  IF n = 0 THEN {<<>>}
  ELSE LET prev == SeqsUpTo(S, n - 1)
       IN  prev \cup {Append(s, x) : s \in prev, x \in S}

\* The URLs handed to redactUrl.
RedactInputs ==
  {[JoinPath(DiscoveryApiUrl, <<"e","v","e","n","t","s">>) EXCEPT !.RawQuery = JoinAmp(segs)] :
     segs \in SeqsUpTo(Segments, MaxPairs)}

sNextHref == <<"/","d","i","s","c","o","v","e","r","y","/","v","2","/","e","v","e","n","t","s","?","p","a","g","e","=","5","0","&","s","i","z","e","=","2","0">>

sPrevHref == <<"/","d","i","s","c","o","v","e","r","y","/","v","2","/","e","v","e","n","t","s","?","p","a","g","e","=","4","8","&","s","i","z","e","=","2","0">>

\* A page of results as the server writes it; an empty href is left out.
LinkJson(name, href) ==
  IF href = <<>> THEN <<>>
  ELSE <<<<"\"">> \o name \o <<"\"",":","{","\"","h","r","e","f","\"",":","\"">> \o href \o <<"\"","}">>>>

PagedBody(size, number, next, prev) ==
  <<"{","\"","_","l","i","n","k","s","\"",":","{">> \o JoinComma(LinkJson(<<"n","e","x","t">>, next) \o LinkJson(<<"p","r","e","v">>, prev))
  \o <<"}",",","\"","p","a","g","e","\"",":","{","\"","s","i","z","e","\"",":">> \o size \o <<",","\"","n","u","m","b","e","r","\"",":">> \o number
  \o <<"}",",","\"","_","e","m","b","e","d","d","e","d","\"",":","{","\"","e","v","e","n","t","s","\"",":","[","{","\"","i","d","\"",":","\"","e","1","\"","}","]","}","}">>

Bodies ==
  { PagedBody(<<"2","0">>, <<"4","9">>, sNextHref, sPrevHref),
    PagedBody(<<"2","0">>, <<"4","9">>, <<>>, sPrevHref),
    PagedBody(<<"2","0">>, <<"4","9">>, sNextHref, <<>>),
    PagedBody(<<"2","0">>, <<"5","0">>, sNextHref, sPrevHref),
    PagedBody(<<"2","0">>, <<"5","0">>, <<>>, <<>>),
    PagedBody(<<"4","2","9","4","9","6","7","2","9","6">>, <<"4","2","9","4","9","6","7","2","9","6">>, sNextHref, sPrevHref),
    PagedBody(<<"2","0">>, <<"4","9">>, <<"%","z","z">>, <<"a",":","b">>),
    <<"{","}">>,
    <<"{","}","x">>,
    <<"{","\"","p","a","g","e","\"",":","{","\"","s","i","z","e","\"",":","2","0">>,
    <<"{","\"","p","a","g","e","\"",":","\"","x","\"","}">>,
    <<"n","o","t"," ","f","o","u","n","d">>,
    <<>> }

\* The statuses of a failed request and the bodies sent with them.
ErrorStatuses == {404, 500}

ErrorBodies == {<<"n","o","t"," ","f","o","u","n","d">>, <<"{","}">>}

\* What http.Get gives: a response and no error; no response and an error;
\* or, when the redirect limit is hit, the last response with its body
\* already closed together with an error.
Response(s, b) == [resp |-> Some([StatusCode |-> s, Body |-> b, closed |-> FALSE]), err |-> Nil]

Outcomes ==
  {Response(StatusOK, b) : b \in Bodies}
  \cup {Response(s, b) : s \in ErrorStatuses, b \in ErrorBodies}
  \cup {[resp |-> Nil, err |-> Some([type |-> "url.Error", msg |-> <<"c","o","n","n","e","c","t","i","o","n"," ","r","e","f","u","s","e","d">>])]}
  \cup {[resp |-> Some([StatusCode |-> 302, Body |-> <<>>, closed |-> TRUE]),
         err |-> Some([type |-> "url.Error", msg |-> <<"s","t","o","p","p","e","d"," ","a","f","t","e","r"," ","1","0"," ","r","e","d","i","r","e","c","t","s">>])]}

----------------------------------------------------------------------------
(* The state machine *)

\* The result of a call that has not been made.
NoResult ==
  [ret |-> Nil, err |-> Nil, panicked |-> FALSE, requests |-> <<>>,
   body |-> [obtained |-> FALSE, closedBefore |-> FALSE, closes |-> 0,
             nilClose |-> FALSE, decoded |-> FALSE]]

\* A client has been constructed; the caller holds no page yet and has made
\* no call.
Init ==
  /\ client \in Clients
  /\ p = Nil
  /\ op = "none"
  /\ args = [in |-> <<>>, env |-> <<>>]
  /\ out = NoResult

\* The caller calls GetEvent; op, args and out record the call and how it
\* ended.
DoGetEvent ==
  /\ op = "none"
  /\ \E id \in EventIds, env \in Outcomes :
       /\ op' = "GetEvent"
       /\ args' = [in |-> id, env |-> env]
       /\ out' = GetEvent(client, id, env)
  /\ UNCHANGED <<client, p>>

DoSearchEvents ==
  /\ op = "none"
  /\ \E q \in SearchInputs, env \in Outcomes :
       /\ op' = "SearchEvents"
       /\ args' = [in |-> q, env |-> env]
       /\ out' = SearchEvents(client, q, env)
  /\ UNCHANGED <<client, p>>

DoNextPage ==
  /\ op = "none"
  /\ p # Nil
  /\ \E env \in Outcomes :
       /\ op' = "NextPage"
       /\ args' = [in |-> p[1], env |-> env]
       /\ out' = NextPage(p[1], client, env)
  /\ UNCHANGED <<client, p>>

DoPreviousPage ==
  /\ op = "none"
  /\ p # Nil
  /\ \E env \in Outcomes :
       /\ op' = "PreviousPage"
       /\ args' = [in |-> p[1], env |-> env]
       /\ out' = PreviousPage(p[1], client, env)
  /\ UNCHANGED <<client, p>>

\* The call has returned (a panic ends the program): the caller keeps the
\* page a search or a page turn returned and is ready for its next call.
Continue ==
  /\ op # "none"
  /\ ~out.panicked
  /\ p' = IF op \in {"SearchEvents", "NextPage", "PreviousPage"} /\ out.ret # Nil
          THEN out.ret ELSE p
  /\ op' = "none"
  /\ args' = [in |-> <<>>, env |-> <<>>]
  /\ out' = NoResult
  /\ UNCHANGED client

Next == DoGetEvent \/ DoSearchEvents \/ DoNextPage \/ DoPreviousPage \/ Continue

Spec == Init /\ [][Next]_vars

\* The URL builder alone: out.ret is what the function returns.
Built(val, e) == [NoResult EXCEPT !.ret = val, !.err = e]

DoEventsUrl ==
  /\ op = "none"
  /\ op' = "EventsUrl"
  /\ args' = [in |-> <<>>, env |-> <<>>]
  /\ out' = Built(Some(EventsUrl(client)), Nil)
  /\ UNCHANGED <<client, p>>

DoVenuesUrl ==
  /\ op = "none"
  /\ op' = "VenuesUrl"
  /\ args' = [in |-> <<>>, env |-> <<>>]
  /\ out' = Built(Some(VenuesUrl(client)), Nil)
  /\ UNCHANGED <<client, p>>

UpdateURLBuilt(r) == Built(r.ret, r.err)

DoUpdateURL ==
  /\ op = "none"
  /\ \E q \in QueryInputs :
       /\ op' = "UpdateURL"
       /\ args' = [in |-> q, env |-> <<>>]
       /\ out' = UpdateURLBuilt(UpdateURL(q, EventsUrl(client), client.ApiKey))
  /\ UNCHANGED <<client, p>>

DoRedactUrl ==
  /\ op = "none"
  /\ \E u \in RedactInputs :
       /\ op' = "redactUrl"
       /\ args' = [in |-> u, env |-> <<>>]
       /\ out' = Built(Some(redactUrl(u)), Nil)
  /\ UNCHANGED <<client, p>>

NextUrl == DoEventsUrl \/ DoVenuesUrl \/ DoUpdateURL \/ DoRedactUrl \/ Continue

SpecUrl == Init /\ [][NextUrl]_vars

----------------------------------------------------------------------------
(* The claims *)

Calls == {"GetEvent", "SearchEvents", "NextPage", "PreviousPage"}

PageTurns == {"NextPage", "PreviousPage"}

\* The link the page turn follows.
Href == IF op = "NextPage" THEN args.in.Links.Next.Href ELSE args.in.Links.Prev.Href

\* Size*Number as Go computes it is at the depth limit or beyond.
GuardTrips == GeSmall(Mul(args.in.Page.Size, args.in.Page.Number), DepthLimit)

\* The product of Size and Number as integers, without wrapping, is at the
\* depth limit or beyond.
ExactProductTrips ==
  GeSmall(Mul(Extend(args.in.Page.Size, 2 * IntLimbs), Extend(args.in.Page.Number, 2 * IntLimbs)),
          DepthLimit)

IsDepthError(e) == e # Nil /\ HasPrefix(e[1].msg, <<"M","a","x"," ","p","a","g","e"," ","d","e","p","t","h"," ","r","e","a","c","h","e","d"," ","(">>)

\* The call returned nil and the depth-limit error and requested nothing.
Refused ==
  /\ ~out.panicked
  /\ out.ret = Nil
  /\ IsDepthError(out.err)
  /\ out.requests = <<>>

\* The call returned (nil, nil) and requested nothing.
NoMorePages ==
  /\ ~out.panicked
  /\ out.ret = Nil
  /\ out.err = Nil
  /\ out.requests = <<>>

\* The call made its request and http.Get gave a response and no error.
Answered ==
  /\ op \in Calls
  /\ out.requests # <<>>
  /\ args.env.resp # Nil
  /\ args.env.err = Nil

IntOf(s) == ParseInt(s).v

\* C1: whenever the product of Page.Size and Page.Number is 1000 or more,
\* NextPage and PreviousPage return nil and a depth-limit error and make no
\* request, whatever the links are.
C1_DepthLimitForEveryProduct == (op \in PageTurns /\ ExactProductTrips) => Refused

\* C2 as claimed: with the link absent, NextPage and PreviousPage return
\* (nil, nil) and make no request, for every value of Page.
C2_AbsentLinkForEveryPage == (op \in PageTurns /\ Href = <<>>) => NoMorePages

\* C2 as amended: with the link absent and the depth guard not tripped,
\* NextPage and PreviousPage return (nil, nil) and make no request; with the
\* guard tripped they return the depth-limit error instead.
C2_AbsentLinkBelowLimit ==
  (op \in PageTurns /\ Href = <<>>) => IF GuardTrips THEN Refused ELSE NoMorePages

C2_Witness ==
  /\ op = "NextPage"
  /\ args.in.Links.Next.Href = <<>>
  /\ args.in.Links.Prev.Href # <<>>
  /\ args.in.Page.Size = IntOf(<<"2","0">>)
  /\ args.in.Page.Number = IntOf(<<"4","9">>)
  /\ NoMorePages

\* C3: when http.Get gives an error and no response, the call returns nil
\* and that error to its caller; it does not end in a panic.
C3_NetworkErrorReturned ==
  (op \in Calls /\ out.requests # <<>> /\ args.env.resp = Nil)
    => (~out.panicked /\ out.ret = Nil /\ out.err # Nil /\ out.err = args.env.err)

\* C4: for a response that http.Get hands over with a status other than 200
\* the call returns nil and an error whose message holds the status code and
\* the body as sent, and the body is not decoded.
C4_StatusError ==
  (Answered /\ args.env.resp[1].StatusCode # StatusOK)
    => /\ ~out.panicked
       /\ out.ret = Nil
       /\ out.err # Nil
       /\ Contains(out.err[1].msg, Itoa(args.env.resp[1].StatusCode))
       /\ Contains(out.err[1].msg, args.env.resp[1].Body)
       /\ ~out.body.decoded

C4_Witness ==
  /\ op = "SearchEvents"
  /\ args.env.resp # Nil
  /\ args.env.resp[1].StatusCode = 404
  /\ args.env.resp[1].Body = <<"n","o","t"," ","f","o","u","n","d">>
  /\ out.ret = Nil
  /\ out.err = Some([type |-> "fmt", msg |-> <<"S","t","a","t","u","s"," ","c","o","d","e",":"," ","4","0","4",":"," ","n","o","t"," ","f","o","u","n","d">>])

\* The query of the URL that UpdateURL built, parsed.
BuiltQuery == Query(out.ret[1])

\* C5: the query of the URL UpdateURL builds holds one entry, with the given
\* value, for every non-empty field under its wire name, none for an empty
\* field, and an apikey entry exactly when the client has an API key.
C5_QueryHoldsExactlyTheFields ==
  (op = "UpdateURL" /\ out.ret # Nil)
    => /\ \A g \in FieldNames :
            IF args.in[g] # <<>>
            THEN WireName(g) \in DOMAIN BuiltQuery /\ BuiltQuery[WireName(g)] = <<args.in[g]>>
            ELSE WireName(g) \notin DOMAIN BuiltQuery
       /\ (sApikey \in DOMAIN BuiltQuery) <=> (client.ApiKey # <<>>)

\* C6: for a URL with no apikey parameter redactUrl returns the string of
\* the URL as it is.
C6_RedactIsIdentity ==
  (op = "redactUrl" /\ sApikey \notin DOMAIN Query(args.in)) => out.ret = Some(String(args.in))

\* The values of the apikey parameter of the URL handed to redactUrl.
KeyValues == Range(Query(args.in)[sApikey])

\* The query of the string redactUrl returned, parsed.
RedactedQuery == ParseQueryInto(EmptyValues, Cut(out.ret[1], <<"?">>).after)

\* The URL handed to redactUrl without its apikey parameter.
RestOfUrl ==
  LET q == Query(args.in)
  IN  String([args.in EXCEPT !.RawQuery = Encode([k \in DOMAIN q \ {sApikey} |-> q[k]])])

C8_BodyClosedOnce ==
  (op \in Calls)
    => IF out.body.obtained
       THEN ~out.panicked /\ out.body.closes = 1
       ELSE out.body.closes = 0 /\ ~out.body.nilClose

\* The body was sent with status 200 and is not one well-formed JSON value.
Malformed == args.env.resp[1].StatusCode = StatusOK /\ ~Valid(args.env.resp[1].Body)

\* C9: for a 200 response whose body is malformed JSON the call returns a
\* decode error and nil; a result that is not nil comes only with status 200
\* and a nil error.
C9_MalformedIsDecodeError ==
  /\ (Answered /\ Malformed)
       => (~out.panicked /\ out.ret = Nil /\ out.err = Some(DecodeError))
  /\ (op \in Calls /\ out.ret # Nil)
       => (Answered /\ args.env.resp[1].StatusCode = StatusOK /\ out.err = Nil)

\* C10: when the link is there, the guard does not trip and the link cannot
\* be parsed, the page turn returns nil and an error and makes no request; it
\* does not end in a panic.
C10_BadLinkReturned ==
  (op \in PageTurns /\ ~GuardTrips /\ Href # <<>> /\ Parse(client.ApiUrl, Href) = Nil)
    => (~out.panicked /\ out.ret = Nil /\ out.err # Nil /\ out.requests = <<>>)
====
